---- MODULE Spec2Model ----
(***************************************************************************)
(* BlitzKV: the Database facade (src/src/database.rs) over its            *)
(* PageManager, the Page codec (src/src/storage/page.rs) and the          *)
(* SsdDevice (src/src/storage/device.rs), as a state machine.             *)
(*                                                                         *)
(* One action per public operation (Database::set, Database::get,         *)
(* Database::new on the same file) plus the passing of wall-clock         *)
(* seconds.  Every operation is modelled whole: the PageManager calls it  *)
(* makes are operators over a record `m` holding the PageManager's        *)
(* fields, threaded through in the order the code runs them.              *)
(*                                                                         *)
(* Abstractions, all stated where they are made:                          *)
(*  - page size and cache capacity are scaled down (52 bytes, 2 pages)    *)
(*    so that full pages and evictions happen within a few operations;    *)
(*  - crc32fast::hash is a position-weighted checksum;                    *)
(*  - f64 frequencies are fixed-point thousandths;                        *)
(*  - the uninitialised tail of the write buffer is the symbolic byte     *)
(*    Junk, which no decoder of an intact page ever reads;                *)
(*  - an Rc<RefCell<Page>> is identified by its page id: the cache and    *)
(*    PageStatus.in_memory always share the one live handle of a page.    *)
(***************************************************************************)
EXTENDS Integers, Sequences, FiniteSets, TLC

\* ------------------------------------------------------------------ bounds
MaxOps == 4
MaxClock == 1
MaxReopens == 1
\* the largest entry_index a Page is asked for (SpecPage)
MaxEntryIndex == 2
\* operations of a FileSlab run (SpecSlab)
MaxSlabOps == 6
\* operations of the deeper runs (SpecDeep)
MaxDeepOps == 6

\* ------------------------------------------------- program constants
\* database.rs:15 sets 4096; scaled so that a page holds one to two entries.
DEFAULT_PAGE_SIZE == 52
\* database.rs:16 sets 50; scaled so that the third page evicts the first.
DEFAULT_CACHE_SIZE == 2
MAGIC_SIZE == 7
ID_SIZE == 8
SIZE_FIELD_SIZE == 4
CRC32_SIZE == 4
HEADER_SIZE == MAGIC_SIZE + ID_SIZE + SIZE_FIELD_SIZE + CRC32_SIZE
ENTRY_METADATA_SIZE == SIZE_FIELD_SIZE * 2
\* "blitzkv" in ASCII
MAGIC_HEADER == <<98, 108, 105, 116, 122, 107, 118>>
\* the hot_threshold main.rs passes for its "optimized" variant
HotThresholds == {2}
\* the thresholds under which every access of an indexed key is hot
LowThresholds == {0, 1}

\* slab/mod.rs:344: the slab_per_file of test_slab_basic
SLAB_PER_FILE == 2
\* slab/mod.rs:344 passes [128, 256, 512]; scaled so that the small entries
\* take the first class, the middle ones the second and the big ones none.
SlabSizes == <<8, 16>>
\* FileSlab::VALID = 1 << 10
FileSlab_VALID == 1024
\* mem::size_of::<u16>()
SIZE_OF_U16 == 2

\* ------------------------------------------------------------ inputs
Key1 == <<1>>
Key2 == <<2, 2>>
Keys == {Key1, Key2}
SmallValue == <<>>
MidValue == <<7, 7, 7, 7, 7, 7, 7>>
BigValue == [i \in 1..20 |-> 9]
Values == {SmallValue, MidValue, BigValue}

\* A byte of the write buffer that write_to_buffer never assigned.
Junk == -1

\* Option<T>: None is <<>>, Some(x) is <<x>>.
None == <<>>
Some(x) == <<x>>
IsSome(o) == o # <<>>
Unwrap(o) == o[1]

VARIABLES
    index,            \* Database.index: key -> ObjectMetadata
    hot_threshold,    \* Database.hot_threshold
    pages,            \* PageManager.pages: page id -> PageStatus
    next_id,          \* PageManager.next_id
    page_cache,       \* PageManager.page_cache: page ids, least recently used first
    hit_count,        \* PageManager.hit_count
    miss_count,       \* PageManager.miss_count
    hot_free_spaces,  \* PageManager.hot_free_spaces: free space -> Seq(page id)
    cold_free_spaces, \* PageManager.cold_free_spaces
    file,             \* SsdDevice.file: page id -> the page_size bytes stored there
    reads,            \* SsdMetrics.reads
    writes,           \* SsdMetrics.writes
    clock,            \* SystemTime::now() in seconds
    alive,            \* FALSE once an operation panicked
    result,           \* what the last operation returned
    nops,             \* operations issued so far
    reopens,          \* Database::new calls after the first
    lastSet,          \* history: key -> value of the last successful set of this Database
    prevSet,          \* history: key -> value of the successful set before that one
    persisted,        \* history: key -> value of the last successful set on this file
    touched,          \* history: page ids this Database loaded or inserted, oldest first
    budget,           \* the number of operations the run may issue
    fault,            \* what happened to the device behind the engine's back
    unit_page,        \* a Page of its own, as the unit tests of page.rs build one
    file_slab,        \* a FileSlab with its directory, as test_slab_basic builds one
    live_slabs        \* history: the Slabs create returned that were not deleted since

vars == <<index, hot_threshold, pages, next_id, page_cache, hit_count, miss_count,
          hot_free_spaces, cold_free_spaces, file, reads, writes, clock, alive,
          result, nops, reopens, lastSet, prevSet, persisted, touched, budget, fault, unit_page, file_slab, live_slabs>>

\* ------------------------------------------------------- small helpers
MapPut(map, k, v) == [x \in (DOMAIN map) \cup {k} |-> IF x = k THEN v ELSE map[x]]
MapRemove(map, k) == [x \in (DOMAIN map) \ {k} |-> map[x]]
EmptyMap == [x \in {} |-> 0]

RECURSIVE SumBytes(_, _)
SumBytes(bs, i) ==
    IF i > Len(bs) THEN 0 ELSE (i * bs[i] + SumBytes(bs, i + 1)) % 65521

\* crc32fast::hash, abstracted to a position-weighted checksum.
Crc32(bs) == (SumBytes(bs, 1) + Len(bs)) % 65521

\* u32::to_le_bytes / u64::to_le_bytes
RECURSIVE to_le_bytes(_, _)
to_le_bytes(n, w) ==
    IF w = 0 THEN <<>> ELSE <<n % 256>> \o to_le_bytes(n \div 256, w - 1)

\* u32::from_le_bytes / u64::from_le_bytes
RECURSIVE from_le_bytes(_)
from_le_bytes(bs) ==
    IF bs = <<>> THEN 0 ELSE Head(bs) + 256 * from_le_bytes(Tail(bs))

\* buf[from .. to) of a 0-based Rust slice
Slice(buf, from, to) == SubSeq(buf, from + 1, to)

\* ---------------------------------------------------------------- Page
\* Entry::total_size
Entry_total_size(e) == ENTRY_METADATA_SIZE + Len(e.key) + Len(e.value)

\* Page::new
Page_new(id, size) ==
    [magic |-> MAGIC_HEADER, id |-> id, size |-> size, crc32 |-> 0,
     data |-> <<>>, current_size |-> HEADER_SIZE + SIZE_FIELD_SIZE]

\* Page::push_entry answers the byte offset (current_size before the push).
Page_push_entry_index(page) == page.current_size

\* A variant of push_entry that counts the key and value bytes only and leaves
\* out the 8 bytes of the entry's metadata.
Page_push_entry_payload_only(page, key, value) ==
    LET offset == Page_push_entry_index(page)
        new_size == page.current_size + Len(key) + Len(value)
    IN IF new_size > page.size
       THEN [page |-> page, ret |-> None]
       ELSE [page |-> [page EXCEPT !.data = Append(@, [key |-> key, value |-> value]),
                                   !.current_size = new_size],
             ret |-> Some(offset)]

\* A variant of push_entry that refuses an entry that fills the page exactly.
Page_push_entry_no_exact_fit(page, key, value) ==
    LET offset == Page_push_entry_index(page)
        new_size == page.current_size + ENTRY_METADATA_SIZE + Len(key) + Len(value)
    IN IF new_size >= page.size
       THEN [page |-> page, ret |-> None]
       ELSE [page |-> [page EXCEPT !.data = Append(@, [key |-> key, value |-> value]),
                                   !.current_size = new_size],
             ret |-> Some(offset)]

\* Page::push_entry: [page, ret], ret = None when the entry exceeds the size limit.
Page_push_entry(page, key, value) ==
    LET offset == Page_push_entry_index(page)
        new_size == page.current_size + ENTRY_METADATA_SIZE + Len(key) + Len(value)
    IN IF new_size > page.size
       THEN [page |-> page, ret |-> None]
       ELSE [page |-> [page EXCEPT !.data = Append(@, [key |-> key, value |-> value]),
                                   !.current_size = new_size],
             ret |-> Some(offset)]

\* The entries without the one at the 1-based position i (Vec::remove).
RemoveAt(data, i) == SubSeq(data, 1, i - 1) \o SubSeq(data, i + 1, Len(data))

\* The 1-based position of the first entry of data with the key, 0 if none.
RECURSIVE FirstWithKey(_, _, _)
FirstWithKey(data, key, i) ==
    IF i > Len(data) THEN 0
    ELSE IF data[i].key = key THEN i ELSE FirstWithKey(data, key, i + 1)

\* A variant of remove_entry that removes the entry and leaves current_size
\* as it was.
Page_remove_entry_size_kept(page, key) ==
    IF FirstWithKey(page.data, key, 1) = 0 THEN [page |-> page, ret |-> FALSE]
    ELSE [page |-> [page EXCEPT !.data = RemoveAt(@, FirstWithKey(page.data, key, 1))],
          ret |-> TRUE]

\* A variant of remove_entry that drops every entry with the key
\* (Vec::retain) where the code removes the first one.
Page_remove_entry_all(page, key) ==
    IF FirstWithKey(page.data, key, 1) = 0 THEN [page |-> page, ret |-> FALSE]
    ELSE [page |-> [page EXCEPT
                       !.data = SelectSeq(@, LAMBDA e : e.key # key),
                       !.current_size =
                           @ - Entry_total_size(page.data[FirstWithKey(page.data, key, 1)])],
          ret |-> TRUE]

\* Page::remove_entry: [page, ret]; the first entry with the key is removed
\* and its total_size is taken off current_size.
Page_remove_entry(page, key) ==
    IF FirstWithKey(page.data, key, 1) = 0 THEN [page |-> page, ret |-> FALSE]
    ELSE [page |-> [page EXCEPT
                       !.data = RemoveAt(@, FirstWithKey(page.data, key, 1)),
                       !.current_size =
                           @ - Entry_total_size(page.data[FirstWithKey(page.data, key, 1)])],
          ret |-> TRUE]

\* Page::capacity
Page_capacity(page) == page.size

\* Page::free_space (called by database.rs; its body is not in page.rs)
Page_free_space(page) == Page_capacity(page) - page.current_size

\* First position of an entry with this key, 0 when there is none.
RECURSIVE ScanKey(_, _, _)
ScanKey(data, key, i) ==
    IF i > Len(data) THEN 0
    ELSE IF data[i].key = key THEN i ELSE ScanKey(data, key, i + 1)

\* A variant of Page::get that ignores entry_index and always answers the
\* first entry with the key.
Page_get_scan_only(page, entry_index, key) ==
    IF ScanKey(page.data, key, 1) = 0 THEN None
    ELSE Some(page.data[ScanKey(page.data, key, 1)].value)

\* Page::get (called by database.rs; its body is not in page.rs): the value at
\* the 0-based entry_index when that entry holds the key, else the first
\* entry with the key, else None.
Page_get(page, entry_index, key) ==
    IF entry_index < Len(page.data) /\ page.data[entry_index + 1].key = key
    THEN Some(page.data[entry_index + 1].value)
    ELSE LET i == ScanKey(page.data, key, 1)
         IN IF i = 0 THEN None ELSE Some(page.data[i].value)

\* Entry::write_to_buffer with EntryMetadata::write_to_buffer
Entry_write_to_buffer(e) ==
    to_le_bytes(Len(e.key), SIZE_FIELD_SIZE) \o to_le_bytes(Len(e.value), SIZE_FIELD_SIZE)
        \o e.key \o e.value

RECURSIVE EntriesBytes(_, _)
EntriesBytes(data, i) ==
    IF i > Len(data) THEN <<>>
    ELSE Entry_write_to_buffer(data[i]) \o EntriesBytes(data, i + 1)

\* PageHeader::write_to_buffer
PageHeader_write_to_buffer(page) ==
    page.magic \o to_le_bytes(page.id, ID_SIZE) \o to_le_bytes(page.size, SIZE_FIELD_SIZE)
        \o to_le_bytes(page.crc32, CRC32_SIZE)

\* The bytes Page::write_to_buffer puts after the header: the number of
\* entries, then the entries.
PageBody(page) ==
    to_le_bytes(Len(page.data), SIZE_FIELD_SIZE) \o EntriesBytes(page.data, 1)

\* The buffer after Page::write_to_buffer: the bytes it wrote, then what the
\* allocation held.
FillBuffer(written, buf_len) ==
    written \o [i \in 1..(buf_len - Len(written)) |-> Junk]

\* Page::write_to_buffer, once header.crc32 holds the checksum of the body.
WriteWithCrc(page, buf_len) ==
    [page |-> page,
     buf |-> FillBuffer(PageHeader_write_to_buffer(page) \o PageBody(page), buf_len)]

\* Page::write_to_buffer that leaves the placeholder CRC32 of 0 in the header.
Page_write_to_buffer_placeholder_crc(page, buf_len) ==
    WriteWithCrc([page EXCEPT !.crc32 = 0], buf_len)

\* Page::write_to_buffer into a buffer of buf_len bytes that nothing
\* initialised: [page (its header.crc32 set), buf].
Page_write_to_buffer(page, buf_len) ==
    WriteWithCrc([page EXCEPT !.crc32 = Crc32(PageBody(page))], buf_len)

\* One decoded entry in front of the entries decoded after it.
ConsEntry(e, rest) ==
    [ok |-> rest.ok, data |-> <<e>> \o rest.data, off |-> rest.off]

RECURSIVE ReadEntries(_, _, _)
\* Entry::read_from_buffer at offset off, its sizes read, then the n - 1
\* entries after it.
ReadEntrySized(buf, off, n, key_size, value_size) ==
    IF key_size < 0 \/ value_size < 0
          \/ off + ENTRY_METADATA_SIZE + key_size + value_size > Len(buf)
    THEN [ok |-> FALSE, data |-> <<>>, off |-> off]
    ELSE ConsEntry([key |-> Slice(buf, off + ENTRY_METADATA_SIZE,
                                  off + ENTRY_METADATA_SIZE + key_size),
                    value |-> Slice(buf, off + ENTRY_METADATA_SIZE + key_size,
                                    off + ENTRY_METADATA_SIZE + key_size + value_size)],
                   ReadEntries(buf, off + ENTRY_METADATA_SIZE + key_size + value_size, n - 1))

\* Entry::read_from_buffer, n times from offset off: [ok, data, off]; ok is
\* FALSE where a Rust slice index would be out of range (a panic).
ReadEntries(buf, off, n) ==
    IF n <= 0 THEN [ok |-> n = 0, data |-> <<>>, off |-> off]
    ELSE IF off + ENTRY_METADATA_SIZE > Len(buf) THEN [ok |-> FALSE, data |-> <<>>, off |-> off]
    ELSE ReadEntrySized(buf, off, n,
                        from_le_bytes(Slice(buf, off, off + SIZE_FIELD_SIZE)),
                        from_le_bytes(Slice(buf, off + SIZE_FIELD_SIZE,
                                            off + ENTRY_METADATA_SIZE)))

\* PageHeader::read_from_buffer
PageHeader_read_from_buffer(buf) ==
    [magic |-> Slice(buf, 0, MAGIC_SIZE),
     id |-> from_le_bytes(Slice(buf, MAGIC_SIZE, MAGIC_SIZE + ID_SIZE)),
     size |-> from_le_bytes(Slice(buf, MAGIC_SIZE + ID_SIZE,
                                  MAGIC_SIZE + ID_SIZE + SIZE_FIELD_SIZE)),
     crc32 |-> from_le_bytes(Slice(buf, MAGIC_SIZE + ID_SIZE + SIZE_FIELD_SIZE,
                                   HEADER_SIZE))]

\* Page::read_from_buffer, the header and the entries read: the CRC32 check.
ReadVerify(buf, header, es) ==
    IF ~es.ok THEN [panic |-> TRUE, page |-> Page_new(0, 0)]
    ELSE [panic |-> Crc32(Slice(buf, HEADER_SIZE, es.off)) # header.crc32,
          page |-> [magic |-> header.magic, id |-> header.id, size |-> header.size,
                    crc32 |-> header.crc32, data |-> es.data, current_size |-> es.off]]

\* Page::read_from_buffer: [panic, page].  The magic is read and kept, never
\* compared; a CRC mismatch panics.
Page_read_from_buffer(buf) ==
    IF Len(buf) < HEADER_SIZE + SIZE_FIELD_SIZE
    THEN [panic |-> TRUE, page |-> Page_new(0, 0)]
    ELSE ReadVerify(buf, PageHeader_read_from_buffer(buf),
                    ReadEntries(buf, HEADER_SIZE + SIZE_FIELD_SIZE,
                                from_le_bytes(Slice(buf, HEADER_SIZE,
                                                    HEADER_SIZE + SIZE_FIELD_SIZE))))

\* ----------------------------------------------------------- SsdDevice
\* SsdDevice::write_page, the buffer w filled: the block is stored.
WritePageStore(m, w) ==
    [m |-> [m EXCEPT !.file = MapPut(@, w.page.id, w.buf), !.writes = @ + 1],
     page |-> w.page, err |-> FALSE, panic |-> FALSE]

\* SsdDevice::write_page on the PageManager record m: [m, page, err, panic].
\* The results of seek and write are unwrapped: an I/O error panics.
SsdDevice_write_page(m, page) ==
    IF Page_capacity(page) # m.page_size
    THEN [m |-> m, page |-> page, err |-> TRUE, panic |-> FALSE]
    ELSE IF m.io_error
    THEN [m |-> m, page |-> page, err |-> FALSE, panic |-> TRUE]
    ELSE WritePageStore(m, Page_write_to_buffer(page, m.page_size))

\* SsdDevice::read_page, the block read and the metrics updated: the decode.
ReadPageDecode(m, r) ==
    [m |-> [m EXCEPT !.reads = @ + 1], page |-> r.page, panic |-> r.panic, err |-> FALSE]

\* SsdDevice::read_page: [m, page, panic, err].  An I/O error of seek or read
\* is returned as SsdError::Io; a read past the end of the file returns 0
\* bytes and fails assert_eq!(bytes_read, page_size).
SsdDevice_read_page(m, page_id) ==
    IF m.io_error
    THEN [m |-> m, page |-> Page_new(page_id, m.page_size), panic |-> FALSE, err |-> TRUE]
    ELSE IF page_id \notin DOMAIN m.file
    THEN [m |-> m, page |-> Page_new(page_id, m.page_size), panic |-> TRUE, err |-> FALSE]
    ELSE ReadPageDecode(m, Page_read_from_buffer(m.file[page_id]))

\* ------------------------------------------------------------ LruCache
\* Vec::iter().position: the first 1-based position of x in s, 0 when absent.
RECURSIVE Position(_, _, _)
Position(s, x, i) ==
    IF i > Len(s) THEN 0 ELSE IF s[i] = x THEN i ELSE Position(s, x, i + 1)

Without(s, x) == SelectSeq(s, LAMBDA y : y # x)

InSeq(s, x) == \E i \in 1..Len(s) : s[i] = x

\* hashlink LruCache::get: a hit makes the entry the most recently used one.
LruCache_get(cache, page_id) ==
    IF InSeq(cache, page_id) THEN Append(Without(cache, page_id), page_id) ELSE cache

\* A variant of the cache insert that never evicts.
LruCache_insert_unbounded(cache, page_id, capacity) ==
    IF InSeq(cache, page_id) THEN Append(Without(cache, page_id), page_id)
    ELSE Append(cache, page_id)

\* A variant of the cache insert that evicts the most recently used entry.
LruCache_insert_evict_newest(cache, page_id, capacity) ==
    IF InSeq(cache, page_id) THEN Append(Without(cache, page_id), page_id)
    ELSE IF Len(cache) >= capacity
    THEN Append(SubSeq(cache, 1, Len(cache) - 1), page_id)
    ELSE Append(cache, page_id)

\* hashlink LruCache::insert: replaces an entry of the same key, else evicts the
\* least recently used entry when the cache is at capacity.
LruCache_insert(cache, page_id, capacity) ==
    IF InSeq(cache, page_id) THEN Append(Without(cache, page_id), page_id)
    ELSE IF Len(cache) >= capacity THEN Append(Tail(cache), page_id)
    ELSE Append(cache, page_id)

\* --------------------------------------------------------- PageManager
\* The PageManager of the current state, with its SsdDevice.
PM ==
    [pages |-> pages, next_id |-> next_id, page_size |-> DEFAULT_PAGE_SIZE,
     page_cache |-> page_cache, hit_count |-> hit_count, miss_count |-> miss_count,
     hot_free_spaces |-> hot_free_spaces, cold_free_spaces |-> cold_free_spaces,
     file |-> file, reads |-> reads, writes |-> writes, io_error |-> fault = "io"]

\* PageManager::new on a file that holds the bytes f.
PageManager_new(f) ==
    [pages |-> EmptyMap, next_id |-> 0, page_size |-> DEFAULT_PAGE_SIZE,
     page_cache |-> <<>>, hit_count |-> 0, miss_count |-> 0,
     hot_free_spaces |-> EmptyMap, cold_free_spaces |-> EmptyMap,
     file |-> f, reads |-> 0, writes |-> 0, io_error |-> FALSE]

\* A variant of the range lookup that takes the last key of the range, the
\* largest free space, where BTreeMap::range(..).next() takes the first.
RangeLast(map, required_space) ==
    LET ks == {f \in DOMAIN map : f >= required_space}
    IN IF ks = {} THEN None
       ELSE Some(CHOOSE f \in ks : \A g \in ks : f >= g)

\* BTreeMap::range(required_space..).next(): the smallest key >= required_space.
RangeFirst(map, required_space) ==
    LET ks == {f \in DOMAIN map : f >= required_space}
    IN IF ks = {} THEN None
       ELSE Some(CHOOSE f \in ks : \A g \in ks : f <= g)

\* A variant of find_suitable_page_id that ignores the class asked for and
\* always searches the cold index.
find_suitable_page_id_any_class(m, required_space, is_hot) ==
    LET map == m.cold_free_spaces
        first == RangeFirst(map, required_space)
    IN IF IsSome(first) /\ map[Unwrap(first)] # <<>>
       THEN Some(map[Unwrap(first)][1])
       ELSE None

\* PageManager::find_suitable_page_id
PageManager_find_suitable_page_id(m, required_space, is_hot) ==
    LET map == IF is_hot THEN m.hot_free_spaces ELSE m.cold_free_spaces
        first == RangeFirst(map, required_space)
    IN IF IsSome(first) /\ map[Unwrap(first)] # <<>>
       THEN Some(map[Unwrap(first)][1])
       ELSE None

\* Vec::swap_remove: the last element takes the place of the removed one.
swap_remove(s, pos) ==
    IF pos = Len(s) THEN SubSeq(s, 1, Len(s) - 1)
    ELSE [i \in 1..(Len(s) - 1) |-> IF i = pos THEN s[Len(s)] ELSE s[i]]

\* The body of update_free_space_index on the map of one class.
UpdateFreeSpaceMap(map, page_id, old_free, new_free) ==
    LET removed ==
            IF old_free > 0 /\ old_free \in DOMAIN map
            THEN LET page_list == map[old_free]
                     pos == Position(page_list, page_id, 1)
                     list2 == IF pos > 0 THEN swap_remove(page_list, pos) ELSE page_list
                 IN IF list2 = <<>> THEN MapRemove(map, old_free)
                    ELSE MapPut(map, old_free, list2)
            ELSE map
    IN IF new_free > 0
       THEN MapPut(removed, new_free,
                   Append(IF new_free \in DOMAIN removed THEN removed[new_free] ELSE <<>>,
                          page_id))
       ELSE removed

\* PageManager::update_free_space_index
PageManager_update_free_space_index(m, page_id, old_free, new_free, is_hot) ==
    IF is_hot
    THEN [m EXCEPT !.hot_free_spaces = UpdateFreeSpaceMap(@, page_id, old_free, new_free)]
    ELSE [m EXCEPT !.cold_free_spaces = UpdateFreeSpaceMap(@, page_id, old_free, new_free)]

\* PageManager::ensure_page_loaded, database.rs:211-224: the cache holds the page.
EnsureHit(m, page_id, now) ==
    IF page_id \in DOMAIN m.pages
    THEN [m EXCEPT !.page_cache = LruCache_get(@, page_id),
                   !.hit_count = @ + 1,
                   !.pages[page_id].access_count = @ + 1,
                   !.pages[page_id].last_access = now]
    ELSE [m EXCEPT !.page_cache = LruCache_get(@, page_id), !.hit_count = @ + 1]

\* The PageStatus ensure_page_loaded leaves for a page read from the device
\* (database.rs:237-247).
LoadedStatus(m, page_id, page, free_space, now) ==
    [(IF page_id \in DOMAIN m.pages THEN m.pages[page_id]
      ELSE [in_memory |-> None, is_hot |-> FALSE, free_space |-> free_space,
            access_count |-> 0, last_access |-> now])
     EXCEPT !.in_memory = Some(page),
            !.free_space = free_space,
            !.access_count = @ + 1,
            !.last_access = now]

\* ensure_page_loaded, database.rs:248-253, the status stored: the page is
\* listed under its free space and enters the cache.
EnsureIndexed(m, page_id, free_space) ==
    [PageManager_update_free_space_index(m, page_id, 0, free_space, m.pages[page_id].is_hot)
     EXCEPT !.page_cache = LruCache_insert(@, page_id, DEFAULT_CACHE_SIZE)]

\* ensure_page_loaded, database.rs:229-255, the page read from the device.
EnsureMiss(r, page_id, now) ==
    IF r.panic THEN [m |-> r.m, panic |-> TRUE, err |-> FALSE]
    ELSE IF r.err THEN [m |-> r.m, panic |-> FALSE, err |-> TRUE]
    ELSE [m |-> EnsureIndexed(
                    [r.m EXCEPT !.pages = MapPut(@, page_id,
                         LoadedStatus(r.m, page_id, r.page, Page_free_space(r.page), now))],
                    page_id, Page_free_space(r.page)),
          panic |-> FALSE, err |-> FALSE]

\* PageManager::ensure_page_loaded: [m, panic, err]; the handle it returns is
\* m.pages[page_id].in_memory.
PageManager_ensure_page_loaded(m, page_id, now) ==
    IF InSeq(m.page_cache, page_id)
    THEN [m |-> EnsureHit(m, page_id, now), panic |-> FALSE, err |-> FALSE]
    ELSE EnsureMiss(SsdDevice_read_page([m EXCEPT !.miss_count = @ + 1], page_id),
                    page_id, now)

\* A result of set_inner / set: the PageManager after the call, Ok(loc) unless
\* err (an Err(PageManagerError)) or panic.
PMRet(m, loc, err, panic) == [m |-> m, loc |-> loc, err |-> err, panic |-> panic]

\* A variant of the new-page path that leaves next_id as it is, so the next
\* new page takes the same id.
NewPageWrittenIdKept(w, page_id, page_index, free_space, is_hot, now) ==
    IF w.panic THEN PMRet(w.m, None, FALSE, TRUE)
    ELSE IF w.err THEN PMRet(w.m, None, TRUE, FALSE)
    ELSE PMRet([PageManager_update_free_space_index(
                    [w.m EXCEPT !.pages = MapPut(@, page_id,
                         [in_memory |-> Some(w.page), is_hot |-> is_hot,
                          free_space |-> free_space, access_count |-> 1,
                          last_access |-> now])],
                    page_id, 0, free_space, is_hot)
                EXCEPT !.page_cache = LruCache_insert(@, page_id, DEFAULT_CACHE_SIZE)],
               Some([page_id |-> page_id, page_index |-> page_index]), FALSE, FALSE)

\* A variant of the new-page path that caches and lists the new page but does
\* not enter its PageStatus into pages.
NewPageWrittenUntracked(w, page_id, page_index, free_space, is_hot, now) ==
    IF w.panic THEN PMRet(w.m, None, FALSE, TRUE)
    ELSE IF w.err THEN PMRet(w.m, None, TRUE, FALSE)
    ELSE PMRet([PageManager_update_free_space_index(w.m, page_id, 0, free_space, is_hot)
                EXCEPT !.page_cache = LruCache_insert(@, page_id, DEFAULT_CACHE_SIZE),
                       !.next_id = @ + 1],
               Some([page_id |-> page_id, page_index |-> page_index]), FALSE, FALSE)

\* set_inner, database.rs:297-326: the new page w.page is written.
NewPageWritten(w, page_id, page_index, free_space, is_hot, now) ==
    IF w.panic THEN PMRet(w.m, None, FALSE, TRUE)
    ELSE IF w.err THEN PMRet(w.m, None, TRUE, FALSE)
    ELSE PMRet([PageManager_update_free_space_index(
                    [w.m EXCEPT !.pages = MapPut(@, page_id,
                         [in_memory |-> Some(w.page), is_hot |-> is_hot,
                          free_space |-> free_space, access_count |-> 1,
                          last_access |-> now])],
                    page_id, 0, free_space, is_hot)
                EXCEPT !.page_cache = LruCache_insert(@, page_id, DEFAULT_CACHE_SIZE),
                       !.next_id = @ + 1],
               Some([page_id |-> page_id, page_index |-> page_index]), FALSE, FALSE)

\* A variant of the new-page path that takes the page id before the push, as
\* allocate_entry of storage/page_manager.rs does, so a failed push consumes it.
NewPagePushedIdTaken(m, p, is_hot, now) ==
    IF IsSome(p.ret)
    THEN NewPageWritten(SsdDevice_write_page(m, p.page), m.next_id, Unwrap(p.ret),
                        Page_free_space(p.page), is_hot, now)
    ELSE PMRet([m EXCEPT !.next_id = @ + 1], None, FALSE, FALSE)

\* set_inner, database.rs:295-333: the push p into the new page.
NewPagePushed(m, p, is_hot, now) ==
    IF IsSome(p.ret)
    THEN NewPageWritten(SsdDevice_write_page(m, p.page), m.next_id, Unwrap(p.ret),
                        Page_free_space(p.page), is_hot, now)
    ELSE PMRet(m, None, FALSE, FALSE)

\* PageManager::set_inner, database.rs:293-334: the entry goes to a new page.
SetInnerNewPage(m, key, value, is_hot, now) ==
    NewPagePushed(m, Page_push_entry(Page_new(m.next_id, m.page_size), key, value),
                  is_hot, now)

\* set_inner, database.rs:276-288: the page with the pushed entry is written.
FitWritten(w, m, p, page_id, old_free, new_free, is_hot) ==
    IF w.panic
    THEN PMRet([m EXCEPT !.pages[page_id].in_memory = Some(p.page)], None, FALSE, TRUE)
    ELSE IF w.err
    THEN PMRet([m EXCEPT !.pages[page_id].in_memory = Some(p.page)], None, TRUE, FALSE)
    ELSE PMRet(PageManager_update_free_space_index(
                   [w.m EXCEPT !.pages[page_id].in_memory = Some(w.page),
                               !.pages[page_id].free_space = new_free,
                               !.pages[page_id].is_hot = is_hot],
                   page_id, old_free, new_free, is_hot),
               Some([page_id |-> page_id, page_index |-> Unwrap(p.ret)]), FALSE, FALSE)

\* A variant of the fit path that reclaims the space of the key's older
\* version: the first entry with the key is removed before the push.
FitPushedReclaiming(m, p, page_id, key, value, is_hot, now) ==
    LET q == Page_push_entry(
                 Page_remove_entry(Unwrap(m.pages[page_id].in_memory), key).page,
                 key, value)
    IN IF IsSome(q.ret)
       THEN FitWritten(SsdDevice_write_page(m, q.page), m, q, page_id,
                       m.pages[page_id].free_space, Page_free_space(q.page), is_hot)
       ELSE SetInnerNewPage(m, key, value, is_hot, now)

\* A variant of the fit path that keeps the pushed entry in memory and does
\* not write the page to the device (write-back instead of write-through).
FitPushedUnwritten(m, p, page_id, key, value, is_hot, now) ==
    IF IsSome(p.ret)
    THEN FitWritten([m |-> m, page |-> p.page, err |-> FALSE, panic |-> FALSE], m, p,
                    page_id, m.pages[page_id].free_space, Page_free_space(p.page), is_hot)
    ELSE SetInnerNewPage(m, key, value, is_hot, now)

\* set_inner, database.rs:275-291: the push p into the page found.
FitPushed(m, p, page_id, key, value, is_hot, now) ==
    IF IsSome(p.ret)
    THEN FitWritten(SsdDevice_write_page(m, p.page), m, p, page_id,
                    m.pages[page_id].free_space, Page_free_space(p.page), is_hot)
    ELSE SetInnerNewPage(m, key, value, is_hot, now)

\* set_inner, database.rs:267-291: the page found is loaded.
FitLoaded(l, page_id, key, value, is_hot, now) ==
    IF l.panic THEN PMRet(l.m, None, FALSE, TRUE)
    ELSE IF l.err THEN PMRet(l.m, None, TRUE, FALSE)
    ELSE FitPushed(l.m, Page_push_entry(Unwrap(l.m.pages[page_id].in_memory), key, value),
                   page_id, key, value, is_hot, now)

\* set_inner, database.rs:266-334, find_suitable_page_id answered.
SetInnerFound(m, found, key, value, is_hot, now) ==
    IF IsSome(found)
    THEN FitLoaded(PageManager_ensure_page_loaded(m, Unwrap(found), now), Unwrap(found),
                   key, value, is_hot, now)
    ELSE SetInnerNewPage(m, key, value, is_hot, now)

\* PageManager::set_inner
PageManager_set_inner(m, key, value, is_hot, now) ==
    SetInnerFound(m, PageManager_find_suitable_page_id(m, Len(key) + Len(value) + 8, is_hot),
                  key, value, is_hot, now)

\* PageManager::set, database.rs:345-357: the free space of the page written is
\* read again and its index entry is moved.
SetRefresh(m, page_id) ==
    IF page_id \in DOMAIN m.pages /\ IsSome(m.pages[page_id].in_memory)
    THEN PageManager_update_free_space_index(
             [m EXCEPT !.pages[page_id].free_space =
                           Page_free_space(Unwrap(m.pages[page_id].in_memory))],
             page_id, m.pages[page_id].free_space,
             Page_free_space(Unwrap(m.pages[page_id].in_memory)),
             m.pages[page_id].is_hot)
    ELSE m

\* PageManager::set, set_inner returned r.
SetAfterInner(r) ==
    IF r.panic \/ r.err \/ ~IsSome(r.loc) THEN r
    ELSE PMRet(SetRefresh(r.m, Unwrap(r.loc).page_id), r.loc, FALSE, FALSE)

\* PageManager::set
PageManager_set(m, key, value, is_hot, now) ==
    SetAfterInner(PageManager_set_inner(m, key, value, is_hot, now))

\* PageManager::get, the page loaded.
GetLoaded(l, location, key) ==
    IF l.panic THEN [m |-> l.m, value |-> None, panic |-> TRUE, err |-> FALSE]
    ELSE IF l.err THEN [m |-> l.m, value |-> None, panic |-> FALSE, err |-> TRUE]
    ELSE [m |-> l.m,
          value |-> Page_get(Unwrap(l.m.pages[location.page_id].in_memory),
                             location.page_index, key),
          panic |-> FALSE, err |-> FALSE]

\* PageManager::get: [m, value, panic, err]
PageManager_get(m, location, key, now) ==
    GetLoaded(PageManager_ensure_page_loaded(m, location.page_id, now), location, key)

\* ------------------------------------------------------------ Database
\* e^(-DECAY_RATE * time_diff) in thousandths, DECAY_RATE = 0.2 (database.rs:18):
\* e^(-0.2) = 0.8187...
RECURSIVE DecayMilli(_)
DecayMilli(time_diff) ==
    IF time_diff = 0 THEN 1000 ELSE (DecayMilli(time_diff - 1) * 819) \div 1000

\* A variant of update_hotness that calls a key hot only above the threshold.
update_hotness_above(md, threshold, now) ==
    LET time_diff == now - md.last_access
        freq == (md.freq_accessed * DecayMilli(time_diff)) \div 1000 + 1000
    IN [md |-> [md EXCEPT !.freq_accessed = freq, !.last_access = now],
        hot |-> freq > threshold * 1000]

\* ObjectMetadata::update_hotness: [md, hot]; freq_accessed in thousandths.
update_hotness(md, threshold, now) ==
    LET time_diff == now - md.last_access
        freq == (md.freq_accessed * DecayMilli(time_diff)) \div 1000 + 1000
    IN [md |-> [md EXCEPT !.freq_accessed = freq, !.last_access = now],
        hot |-> freq >= threshold * 1000]

\* A variant of Database::set that never asks for the hot class.
Database_set_is_hot_never(idx, key, threshold, now) == FALSE

\* A variant of Database::set that classifies a new key by its first access:
\* hot when 1 >= hot_threshold.
Database_set_is_hot_new_counted(idx, key, threshold, now) ==
    IF key \in DOMAIN idx THEN update_hotness(idx[key], threshold, now).hot
    ELSE 1 >= threshold

\* The class Database::set asks the PageManager for.
Database_set_is_hot(idx, key, threshold, now) ==
    IF key \in DOMAIN idx THEN update_hotness(idx[key], threshold, now).hot ELSE FALSE

\* A variant of the end of Database::set that indexes the key before it looks
\* at the PageManager's answer, so a key whose set failed is indexed too.
SetOutcomeIndexedFirst(idx, r, key, value, now) ==
    IF r.panic THEN [index |-> idx, m |-> r.m, ret |-> "Panic"]
    ELSE IF r.err THEN [index |-> idx, m |-> r.m, ret |-> "Storage"]
    ELSE [index |-> MapPut(idx, key,
                           [location |-> IF IsSome(r.loc) THEN Unwrap(r.loc)
                                         ELSE [page_id |-> r.m.next_id, page_index |-> 0],
                            size |-> Len(key) + Len(value),
                            freq_accessed |-> 1000, last_access |-> now]),
          m |-> r.m,
          ret |-> IF IsSome(r.loc) THEN "Ok" ELSE "StorageFull"]

\* A variant of the success arm of Database::set that keeps the frequency
\* update_hotness left for a key already indexed.
SetOutcomeFreqKept(idx, r, key, value, now) ==
    IF r.panic THEN [index |-> idx, m |-> r.m, ret |-> "Panic"]
    ELSE IF r.err THEN [index |-> idx, m |-> r.m, ret |-> "Storage"]
    ELSE IF IsSome(r.loc)
    THEN [index |-> MapPut(idx, key,
                           [location |-> Unwrap(r.loc), size |-> Len(key) + Len(value),
                            freq_accessed |-> IF key \in DOMAIN idx
                                              THEN idx[key].freq_accessed ELSE 1000,
                            last_access |-> now]),
          m |-> r.m, ret |-> "Ok"]
    ELSE [index |-> idx, m |-> r.m, ret |-> "StorageFull"]

\* Database::set, database.rs:417-448: the PageManager answered r.
SetOutcome(idx, r, key, value, now) ==
    IF r.panic THEN [index |-> idx, m |-> r.m, ret |-> "Panic"]
    ELSE IF r.err THEN [index |-> idx, m |-> r.m, ret |-> "Storage"]
    ELSE IF IsSome(r.loc)
    THEN [index |-> MapPut(idx, key,
                           [location |-> Unwrap(r.loc), size |-> Len(key) + Len(value),
                            freq_accessed |-> 1000, last_access |-> now]),
          m |-> r.m, ret |-> "Ok"]
    ELSE [index |-> idx, m |-> r.m, ret |-> "StorageFull"]

\* Database::set: [index, m, ret]
Database_set(idx, m, threshold, key, value, now) ==
    SetOutcome(IF key \in DOMAIN idx
               THEN [idx EXCEPT ![key] = update_hotness(idx[key], threshold, now).md]
               ELSE idx,
               PageManager_set(m, key, value,
                               Database_set_is_hot(idx, key, threshold, now), now),
               key, value, now)

\* Database::get, database.rs:459-467: the PageManager answered r.
GetOutcome(idx, r) ==
    IF r.panic THEN [index |-> idx, m |-> r.m, ret |-> "Panic", value |-> None]
    ELSE IF r.err THEN [index |-> idx, m |-> r.m, ret |-> "Storage", value |-> None]
    ELSE IF IsSome(r.value)
    THEN [index |-> idx, m |-> r.m, ret |-> "Ok", value |-> r.value]
    ELSE [index |-> idx, m |-> r.m, ret |-> "InvalidData", value |-> None]

\* Database::get, the key indexed, its metadata md updated.
GetIndexed(idx, m, md, key, now) ==
    GetOutcome([idx EXCEPT ![key] = md], PageManager_get(m, md.location, key, now))

\* Database::get: [index, m, ret, value]
Database_get(idx, m, threshold, key, now) ==
    IF key \in DOMAIN idx
    THEN GetIndexed(idx, m, update_hotness(idx[key], threshold, now).md, key, now)
    ELSE [index |-> idx, m |-> m, ret |-> "KeyNotFound", value |-> None]

\* A variant of len() that counts the entries stored, one per successful set,
\* where the code counts the keys of the index.
Database_len_entries == writes

\* Database::len
Database_len == Cardinality(DOMAIN index)

\* Database::is_empty
Database_is_empty == DOMAIN index = {}

\* ------------------------------------------------------------ FileSlab
\* SingleFileSlab::new: cur_slab = slab_per_file marks "no file yet".
SingleFileSlab_new(slab_per_file, slab_size) ==
    [files |-> <<>>, slab_size |-> slab_size, slab_per_file |-> slab_per_file,
     cur_file |-> 0, cur_slab |-> slab_per_file, free_slab |-> <<>>]

\* FileSlab::new with FileSet::new; disk maps a file id to the bytes of its file.
FileSlab_new(slab_per_file, slab_sizes) ==
    [next_file_id |-> 0,
     slabs |-> [i \in 1..Len(slab_sizes) |-> SingleFileSlab_new(slab_per_file, slab_sizes[i])],
     disk |-> EmptyMap]

\* key.len() + value.len() + 3 * mem::size_of::<u16>()
SlabItemSize(key, value) == Len(key) + Len(value) + 3 * SIZE_OF_U16

\* The 1-based position of the first size class from i on that takes an item
\* of item_size bytes (the loop of FileSlab::create), 0 if none does.
RECURSIVE ClassFor(_, _, _)
ClassFor(fs, item_size, i) ==
    IF i > Len(fs.slabs) THEN 0
    ELSE IF fs.slabs[i].slab_size >= item_size THEN i ELSE ClassFor(fs, item_size, i + 1)

\* The 1-based position of the first size class from i on whose slab_size is
\* size (iter().find), 0 if there is none.
RECURSIVE ClassOfSize(_, _, _)
ClassOfSize(fs, size, i) ==
    IF i > Len(fs.slabs) THEN 0
    ELSE IF fs.slabs[i].slab_size = size THEN i ELSE ClassOfSize(fs, size, i + 1)

\* A variant of the reuse arm of create that takes the slab freed first
\* (a queue) where the code pops the one freed last.
CreateReuse_oldest(fs, c) ==
    [fs |-> [fs EXCEPT !.slabs[c].free_slab = Tail(@)],
     ret |-> Some(Head(fs.slabs[c].free_slab))]

\* FileSlab::create, slab/mod.rs:182-183: free_slab.pop() is returned.
CreateReuse(fs, c) ==
    [fs |-> [fs EXCEPT !.slabs[c].free_slab = SubSeq(@, 1, Len(@) - 1)],
     ret |-> Some(fs.slabs[c].free_slab[Len(fs.slabs[c].free_slab)])]

\* FileSlab::create, slab/mod.rs:184-192 and 197-201: a new file is created
\* for class c and its slab 0 is returned.
CreateNewFile(fs, c) ==
    [fs |-> [fs EXCEPT !.next_file_id = @ + 1,
                       !.slabs[c].cur_file = fs.next_file_id,
                       !.slabs[c].cur_slab = 0,
                       !.slabs[c].files = Append(@, fs.next_file_id),
                       !.disk = MapPut(@, fs.next_file_id, <<>>)],
     ret |-> Some([size |-> fs.slabs[c].slab_size, index |-> 0, file |-> fs.next_file_id])]

\* FileSlab::create, slab/mod.rs:195-201: cur_slab += 1 and that slot of the
\* current file is returned.
CreateNextSlot(fs, c) ==
    [fs |-> [fs EXCEPT !.slabs[c].cur_slab = @ + 1],
     ret |-> Some([size |-> fs.slabs[c].slab_size,
                   index |-> fs.slabs[c].cur_slab + 1,
                   file |-> fs.slabs[c].cur_file])]

\* FileSlab::create, the size class c chosen (0: "Size too large").
CreateInClass(fs, c) ==
    IF c = 0 THEN [fs |-> fs, ret |-> None]
    ELSE IF fs.slabs[c].free_slab # <<>> THEN CreateReuse(fs, c)
    ELSE IF fs.slabs[c].cur_slab = fs.slabs[c].slab_per_file THEN CreateNewFile(fs, c)
    ELSE CreateNextSlot(fs, c)

\* FileSlab::create: [fs, ret], ret = None for an Err.
FileSlab_create(fs, key, value) ==
    CreateInClass(fs, ClassFor(fs, SlabItemSize(key, value), 1))

\* The file of a slab can be opened: its class knows the file (position() in
\* files) and the file exists.
SlabFileKnown(fs, c, slab) ==
    /\ c # 0
    /\ InSeq(fs.slabs[c].files, slab.file)
    /\ slab.file \in DOMAIN fs.disk

\* seek(offset) and write_all(data) on a file that holds bytes: the file
\* grows as far as the write reaches, a hole reads as zeros.
WriteAt(bytes, offset, data) ==
    [i \in 1..(IF Len(bytes) > offset + Len(data) THEN Len(bytes) ELSE offset + Len(data))
        |-> IF i > offset /\ i <= offset + Len(data) THEN data[i - offset]
            ELSE IF i <= Len(bytes) THEN bytes[i] ELSE 0]

\* The bytes FileSlab::write puts together: VALID, key_size, value_size as
\* u16 LE, then the key and the value.
SlabItemBytes(key, value) ==
    to_le_bytes(FileSlab_VALID, SIZE_OF_U16) \o to_le_bytes(Len(key), SIZE_OF_U16)
        \o to_le_bytes(Len(value), SIZE_OF_U16) \o key \o value

\* FileSlab::write: [fs, ok]
FileSlab_write(fs, slab, key, value) ==
    IF ~SlabFileKnown(fs, ClassOfSize(fs, slab.size, 1), slab) THEN [fs |-> fs, ok |-> FALSE]
    ELSE [fs |-> [fs EXCEPT !.disk[slab.file] =
                      WriteAt(@, slab.size * slab.index, SlabItemBytes(key, value))],
          ok |-> TRUE]

\* FileSlab::read, the 6 header bytes read and valid: the key and the value
\* are read with read_exact.
ReadItem(bytes, offset, key_size, value_size) ==
    IF offset + 3 * SIZE_OF_U16 + key_size + value_size > Len(bytes) THEN None
    ELSE Some(<<Slice(bytes, offset + 3 * SIZE_OF_U16, offset + 3 * SIZE_OF_U16 + key_size),
                Slice(bytes, offset + 3 * SIZE_OF_U16 + key_size,
                      offset + 3 * SIZE_OF_U16 + key_size + value_size)>>)

\* FileSlab::read on the bytes of the slab's file from offset on.
ReadAt(bytes, offset) ==
    IF offset + 3 * SIZE_OF_U16 > Len(bytes) THEN None
    ELSE IF from_le_bytes(Slice(bytes, offset, offset + SIZE_OF_U16)) # FileSlab_VALID
    THEN None
    ELSE ReadItem(bytes, offset,
                  from_le_bytes(Slice(bytes, offset + SIZE_OF_U16, offset + 2 * SIZE_OF_U16)),
                  from_le_bytes(Slice(bytes, offset + 2 * SIZE_OF_U16,
                                      offset + 3 * SIZE_OF_U16)))

\* FileSlab::read: Some(<<key, value>>), or None for an Err.
FileSlab_read(fs, slab) ==
    IF ~SlabFileKnown(fs, ClassOfSize(fs, slab.size, 1), slab) THEN None
    ELSE ReadAt(fs.disk[slab.file], slab.size * slab.index)

\* FileSlab::delete, the class c of the slab found: the slab is pushed on
\* free_slab first, then the invalid flag is written over its first 2 bytes.
DeleteInClass(fs, c, slab) ==
    IF c = 0 THEN [fs |-> fs, ok |-> FALSE]
    ELSE IF ~SlabFileKnown(fs, c, slab)
    THEN [fs |-> [fs EXCEPT !.slabs[c].free_slab = Append(@, slab)], ok |-> FALSE]
    ELSE [fs |-> [fs EXCEPT !.slabs[c].free_slab = Append(@, slab),
                            !.disk[slab.file] =
                                WriteAt(@, slab.size * slab.index, to_le_bytes(0, SIZE_OF_U16))],
          ok |-> TRUE]

\* FileSlab::delete: [fs, ok]
FileSlab_delete(fs, slab) == DeleteInClass(fs, ClassOfSize(fs, slab.size, 1), slab)

\* ------------------------------------------------------------- actions

\* -------------------------------------------------------------- actions
\* The PageManager and its device become m.
StorePM(m) ==
    /\ pages' = m.pages
    /\ next_id' = m.next_id
    /\ page_cache' = m.page_cache
    /\ hit_count' = m.hit_count
    /\ miss_count' = m.miss_count
    /\ hot_free_spaces' = m.hot_free_spaces
    /\ cold_free_spaces' = m.cold_free_spaces
    /\ file' = m.file
    /\ reads' = m.reads
    /\ writes' = m.writes

\* The state after Database::new(path, t) on an empty file for a t of
\* thresholds, with b operations to come.
InitWith(b, thresholds) ==
    /\ index = EmptyMap
    /\ hot_threshold \in thresholds
    /\ pages = EmptyMap
    /\ next_id = 0
    /\ page_cache = <<>>
    /\ hit_count = 0
    /\ miss_count = 0
    /\ hot_free_spaces = EmptyMap
    /\ cold_free_spaces = EmptyMap
    /\ file = EmptyMap
    /\ reads = 0
    /\ writes = 0
    /\ clock = 0
    /\ alive = TRUE
    /\ result = [op |-> "new", key |-> <<>>, value |-> <<>>, ret |-> "Ok", out |-> None]
    /\ nops = 0
    /\ reopens = 0
    /\ lastSet = EmptyMap
    /\ prevSet = EmptyMap
    /\ persisted = EmptyMap
    /\ touched = <<>>
    /\ budget = b
    /\ fault = "none"
    /\ unit_page = Page_new(0, DEFAULT_PAGE_SIZE)
    /\ file_slab = FileSlab_new(SLAB_PER_FILE, SlabSizes)
    /\ live_slabs = {}

Init == InitWith(MaxOps, HotThresholds)

InitDeep == InitWith(MaxDeepOps, HotThresholds)

InitLowThresholds == InitWith(MaxOps, LowThresholds)

\* The history of successful sets after a set that returned ret.
Remember(ret, key, value) ==
    /\ lastSet' = IF ret = "Ok" THEN MapPut(lastSet, key, value) ELSE lastSet
    /\ prevSet' = IF ret = "Ok" /\ key \in DOMAIN lastSet
                  THEN MapPut(prevSet, key, lastSet[key]) ELSE prevSet
    /\ persisted' = IF ret = "Ok" THEN MapPut(persisted, key, value) ELSE persisted

\* The pages a set loads or inserts: the page find_suitable_page_id found, if
\* any, is loaded and, when next_id moved, the new page is inserted.
SetTouched(found) ==
    (IF IsSome(found) THEN <<Unwrap(found)>> ELSE <<>>)
    \o (IF next_id' > next_id THEN <<next_id>> ELSE <<>>)

\* The page a get loads: the page of the key's Location, if the key is indexed.
GetTouched(key) ==
    IF key \in DOMAIN index THEN <<index[key].location.page_id>> ELSE <<>>

\* The state after Database::set returned r.
SetDone(r, key, value) ==
    /\ index' = r.index
    /\ StorePM(r.m)
    /\ alive' = (r.ret # "Panic")
    /\ result' = [op |-> "set", key |-> key, value |-> value, ret |-> r.ret, out |-> None]
    /\ Remember(r.ret, key, value)

\* db.set(key, value)
Set(key, value) ==
    /\ alive
    /\ nops < budget
    /\ SetDone(Database_set(index, PM, hot_threshold, key, value, clock), key, value)
    /\ touched' = touched \o SetTouched(
           PageManager_find_suitable_page_id(PM, Len(key) + Len(value) + 8,
               Database_set_is_hot(index, key, hot_threshold, clock)))
    /\ nops' = nops + 1
    /\ UNCHANGED <<hot_threshold, clock, reopens, budget, fault, unit_page, file_slab, live_slabs>>

\* The state after Database::get returned r.
GetDone(r, key) ==
    /\ index' = r.index
    /\ StorePM(r.m)
    /\ alive' = (r.ret # "Panic")
    /\ result' = [op |-> "get", key |-> key, value |-> <<>>, ret |-> r.ret, out |-> r.value]

\* db.get(key)
Get(key) ==
    /\ alive
    /\ nops < budget
    /\ GetDone(Database_get(index, PM, hot_threshold, key, clock), key)
    /\ touched' = touched \o GetTouched(key)
    /\ nops' = nops + 1
    /\ UNCHANGED <<hot_threshold, clock, reopens, lastSet, prevSet, persisted, budget, fault, unit_page, file_slab, live_slabs>>

\* The Database is dropped and Database::new opens the same file again.
Reopen ==
    /\ reopens < MaxReopens
    /\ nops < budget
    /\ index' = EmptyMap
    /\ hot_threshold' = hot_threshold
    /\ StorePM(PageManager_new(file))
    /\ alive' = TRUE
    /\ result' = [op |-> "new", key |-> <<>>, value |-> <<>>, ret |-> "Ok", out |-> None]
    /\ reopens' = reopens + 1
    /\ lastSet' = EmptyMap
    /\ prevSet' = EmptyMap
    /\ touched' = <<>>
    /\ UNCHANGED <<clock, nops, persisted, budget, fault, unit_page, file_slab, live_slabs>>

\* A second passes.
Tick ==
    /\ clock < MaxClock
    /\ nops < budget
    /\ clock' = clock + 1
    /\ UNCHANGED <<index, hot_threshold, pages, next_id, page_cache, hit_count, miss_count,
                   hot_free_spaces, cold_free_spaces, file, reads, writes, alive, result,
                   nops, reopens, lastSet, prevSet, persisted, touched, budget, fault, unit_page, file_slab, live_slabs>>

Next ==
    \/ \E key \in Keys, value \in Values : Set(key, value)
    \/ \E key \in Keys : Get(key)
    \/ Reopen
    \/ Tick

Spec == Init /\ [][Next]_vars

\* The same operations, one operation deeper.
SpecDeep == InitDeep /\ [][Next]_vars

\* The same operations on a Database opened with hot_threshold 0 or 1.
SpecLowThresholds == InitLowThresholds /\ [][Next]_vars

\* The device suffers the fault kind and holds the bytes f afterwards.
Damage(kind, f) ==
    /\ fault = "none"
    /\ nops < budget
    /\ fault' = kind
    /\ file' = f
    /\ UNCHANGED <<index, hot_threshold, pages, next_id, page_cache, hit_count, miss_count,
                   hot_free_spaces, cold_free_spaces, reads, writes, clock, alive, result,
                   nops, reopens, lastSet, prevSet, persisted, touched, budget, unit_page, file_slab, live_slabs>>

\* The offset of the first key byte of the first entry of a block.
FirstKeyOffset == HEADER_SIZE + SIZE_FIELD_SIZE + ENTRY_METADATA_SIZE

\* One byte of the payload of page pid changes on the disk: the first byte of
\* its first key.  The stored CRC32 stays as it was written.
CorruptPayload(pid) ==
    Damage("crc", [file EXCEPT ![pid][FirstKeyOffset + 1] = (@ + 1) % 256])

\* The first byte of the block of page pid changes on the disk: the block no
\* longer starts with MAGIC_HEADER.  The payload and its CRC32 stay.
CorruptMagic(pid) ==
    Damage("magic", [file EXCEPT ![pid][1] = (@ + 1) % 256])

\* The file is cut before the block of page pid.
Truncate(pid) ==
    Damage("truncated", [p \in {q \in DOMAIN file : q < pid} |-> file[p]])

\* From now on every seek, read and write of the device fails.
IoFailure ==
    Damage("io", file)

\* The operations of Next on a device that may suffer one fault.
NextFaults ==
    \/ Next
    \/ \E pid \in DOMAIN file : CorruptPayload(pid)
    \/ \E pid \in DOMAIN file : CorruptMagic(pid)
    \/ \E pid \in DOMAIN file : Truncate(pid)
    \/ IoFailure

SpecFaults == Init /\ [][NextFaults]_vars

\* What the operations on the Page of its own leave alone.
PageOnly ==
    UNCHANGED <<index, hot_threshold, pages, next_id, page_cache, hit_count, miss_count,
                hot_free_spaces, cold_free_spaces, file, reads, writes, clock, alive,
                reopens, lastSet, prevSet, persisted, touched, budget, fault,
                file_slab, live_slabs>>

\* page.push_entry(key, value)
PushEntry(key, value) ==
    /\ nops < budget
    /\ unit_page' = Page_push_entry(unit_page, key, value).page
    /\ result' = [op |-> "push_entry", key |-> key, value |-> value,
                  ret |-> IF IsSome(Page_push_entry(unit_page, key, value).ret)
                          THEN "Some" ELSE "None",
                  out |-> Page_push_entry(unit_page, key, value).ret]
    /\ nops' = nops + 1
    /\ PageOnly

\* page.remove_entry(key)
RemoveEntry(key) ==
    /\ nops < budget
    /\ unit_page' = Page_remove_entry(unit_page, key).page
    /\ result' = [op |-> "remove_entry", key |-> key, value |-> <<>>,
                  ret |-> IF Page_remove_entry(unit_page, key).ret THEN "true" ELSE "false",
                  out |-> None]
    /\ nops' = nops + 1
    /\ PageOnly

\* page.get(entry_index, key)
GetEntry(entry_index, key) ==
    /\ nops < budget
    /\ result' = [op |-> "page_get", key |-> key, value |-> <<>>,
                  ret |-> IF IsSome(Page_get(unit_page, entry_index, key))
                          THEN "Some" ELSE "None",
                  out |-> Page_get(unit_page, entry_index, key),
                  entry_index |-> entry_index]
    /\ nops' = nops + 1
    /\ UNCHANGED unit_page
    /\ PageOnly

\* The operations of a Page.
NextPage ==
    \/ \E key \in Keys, value \in Values : PushEntry(key, value)
    \/ \E key \in Keys : RemoveEntry(key)
    \/ \E entry_index \in 0..MaxEntryIndex, key \in Keys : GetEntry(entry_index, key)

SpecPage == Init /\ [][NextPage]_vars

InitSlab == InitWith(MaxSlabOps, HotThresholds)

\* What the operations of the FileSlab leave alone.
SlabOnly ==
    UNCHANGED <<index, hot_threshold, pages, next_id, page_cache, hit_count, miss_count,
                hot_free_spaces, cold_free_spaces, file, reads, writes, clock, alive,
                reopens, lastSet, prevSet, persisted, touched, budget, fault, unit_page>>

\* The state after a FileSlab operation op on slab (None for create).
SlabDone(op, slab, key, value, ok, out) ==
    /\ result' = [op |-> op, key |-> key, value |-> value,
                  ret |-> IF ok THEN "Ok" ELSE "Err", out |-> out, slab |-> slab]
    /\ nops' = nops + 1
    /\ SlabOnly

\* file_slab.create(key, value)
SlabCreate(key, value) ==
    /\ nops < budget
    /\ file_slab' = FileSlab_create(file_slab, key, value).fs
    /\ live_slabs' = live_slabs
                        \cup {FileSlab_create(file_slab, key, value).ret[i] :
                                 i \in 1..Len(FileSlab_create(file_slab, key, value).ret)}
    /\ SlabDone("slab_create", None, key, value,
                IsSome(FileSlab_create(file_slab, key, value).ret),
                FileSlab_create(file_slab, key, value).ret)

\* file_slab.write(slab, key, value) on a live slab
SlabWrite(slab, key, value) ==
    /\ nops < budget
    /\ slab \in live_slabs
    /\ file_slab' = FileSlab_write(file_slab, slab, key, value).fs
    /\ UNCHANGED live_slabs
    /\ SlabDone("slab_write", Some(slab), key, value,
                FileSlab_write(file_slab, slab, key, value).ok, None)

\* file_slab.read(slab) on a live slab
SlabRead(slab) ==
    /\ nops < budget
    /\ slab \in live_slabs
    /\ UNCHANGED <<file_slab, live_slabs>>
    /\ SlabDone("slab_read", Some(slab), <<>>, <<>>,
                IsSome(FileSlab_read(file_slab, slab)), FileSlab_read(file_slab, slab))

\* file_slab.delete(slab) on a live slab: no slab is deleted twice
SlabDelete(slab) ==
    /\ nops < budget
    /\ slab \in live_slabs
    /\ file_slab' = FileSlab_delete(file_slab, slab).fs
    /\ live_slabs' = live_slabs \ {slab}
    /\ SlabDone("slab_delete", Some(slab), <<>>, <<>>,
                FileSlab_delete(file_slab, slab).ok, None)

\* The operations of a FileSlab.
NextSlab ==
    \/ \E key \in Keys, value \in Values : SlabCreate(key, value)
    \/ \E slab \in live_slabs, key \in Keys, value \in Values : SlabWrite(slab, key, value)
    \/ \E slab \in live_slabs : SlabRead(slab)
    \/ \E slab \in live_slabs : SlabDelete(slab)

SpecSlab == InitSlab /\ [][NextSlab]_vars

\* ---------------------------------------------------------------- claims
\* The page ids listed in a free-space index.
Listed(map) == UNION {{map[f][i] : i \in 1..Len(map[f])} : f \in DOMAIN map}

\* The last operation was a get of a key this Database has stored.
GotStored == result.op = "get" /\ result.key \in DOMAIN lastSet

\* C1: a get of a key returns exactly the value of the last successful set of
\* that key, whatever was set and read in between, evictions included.
C1_RoundTrip ==
    GotStored => (result.ret = "Ok" /\ result.out = Some(lastSet[result.key]))

\* C2: last writer wins: after two successful sets of a key with different
\* values, a get returns the second value and never the first.
C2_LastWriterWins ==
    (GotStored /\ result.key \in DOMAIN prevSet
        /\ prevSet[result.key] # lastSet[result.key])
    => (result.out = Some(lastSet[result.key]) /\ result.out # Some(prevSet[result.key]))

\* C3: after the Database was dropped and opened again on the same file, a get
\* of a key persisted before returns its last-written value.
C3_DurableAcrossReopen ==
    (reopens > 0 /\ result.op = "get" /\ result.key \in DOMAIN persisted
        /\ result.key \notin DOMAIN lastSet)
    => (result.ret = "Ok" /\ result.out = Some(persisted[result.key]))

\* C4: a get of a key for which no set ever succeeded returns KeyNotFound,
\* whatever other keys were set or read.
C4_NeverSetNotFound ==
    (result.op = "get" /\ result.key \notin DOMAIN persisted)
    => (result.ret = "KeyNotFound" /\ result.out = None)

\* C4's case: other keys are stored, one set of the key failed or none was
\* issued, and the key is read.
C4_Witness ==
    /\ result.op = "get"
    /\ result.key \notin DOMAIN persisted
    /\ DOMAIN lastSet # {}
    /\ result.ret = "KeyNotFound"

\* An entry of 8 + |key| + |value| bytes does not fit into an empty page.
TooLarge(key, value) ==
    ENTRY_METADATA_SIZE + Len(key) + Len(value)
        > DEFAULT_PAGE_SIZE - Page_new(0, DEFAULT_PAGE_SIZE).current_size

\* C5: a set whose entry does not fit into an empty page returns StorageFull,
\* consumes no page id, writes nothing to the device and adds no key.
C5_TooLargeStorageFull ==
    [][(result'.op = "set" /\ nops' = nops + 1 /\ TooLarge(result'.key, result'.value))
       => /\ result'.ret = "StorageFull"
          /\ next_id' = next_id
          /\ file' = file
          /\ writes' = writes
          /\ DOMAIN index' = DOMAIN index]_vars

\* C5's case: a set of a too large entry was made on a Database that holds pages.
C5_Witness ==
    /\ result.op = "set"
    /\ TooLarge(result.key, result.value)
    /\ result.ret = "StorageFull"
    /\ next_id > 0

\* C6: len() is the number of distinct keys with a successful set, and
\* is_empty() holds exactly when that number is 0.
C6_LenCountsKeys ==
    /\ Database_len = Cardinality(DOMAIN lastSet)
    /\ Database_is_empty <=> (Cardinality(DOMAIN lastSet) = 0)

\* C6's case: a key was set twice and another set failed.
C6_Witness ==
    /\ prevSet # EmptyMap
    /\ result.op = "set" /\ result.ret = "StorageFull"
    /\ Database_len = 1

\* Every page id listed in the index of class is_hot is a page of that class
\* whose recorded free space is the key it is listed under.
IndexConsistent(map, is_hot) ==
    \A f \in DOMAIN map : \A i \in 1..Len(map[f]) :
        /\ map[f][i] \in DOMAIN pages
        /\ pages[map[f][i]].free_space = f
        /\ pages[map[f][i]].is_hot = is_hot

\* C7: every page id listed under key f in a class's free-space index has
\* pages[pid].free_space = f and pages[pid].is_hot equal to that class.
C7_FreeSpaceIndexConsistent ==
    IndexConsistent(hot_free_spaces, TRUE) /\ IndexConsistent(cold_free_spaces, FALSE)

\* C8: no page id is listed in both the hot and the cold free-space index.
C8_HotColdDisjoint == Listed(hot_free_spaces) \cap Listed(cold_free_spaces) = {}

\* C8's case: both indexes list pages and a page was read back from the device.
C8_Witness ==
    /\ Listed(hot_free_spaces) # {}
    /\ Listed(cold_free_spaces) # {}
    /\ reads > 0

\* C9: a page whose recorded free space is 0 is listed in neither index.
C9_FullPagesUnlisted ==
    \A pid \in DOMAIN pages :
        pages[pid].free_space = 0
        => pid \notin Listed(hot_free_spaces) \cup Listed(cold_free_spaces)

\* The step is a successful set that stored its entry on an existing page.
FitStep ==
    /\ result'.op = "set"
    /\ nops' = nops + 1
    /\ result'.ret = "Ok"
    /\ next_id' = next_id

\* The page p, of the class asked for, has room for required bytes and no
\* indexed page of that class with room for them has less free space.
SmallestFit(p, required, is_hot) ==
    /\ p \in DOMAIN pages
    /\ pages[p].is_hot = is_hot
    /\ pages[p].free_space >= required
    /\ \A q \in Listed(IF is_hot THEN hot_free_spaces ELSE cold_free_spaces) :
          (pages[q].is_hot = is_hot /\ pages[q].free_space >= required)
          => pages[p].free_space <= pages[q].free_space

C11_FitLowersFreeSpace ==
    [][FitStep
       => LET pid == index'[result'.key].location.page_id
          IN /\ pid \in DOMAIN pages
             /\ pages'[pid].free_space
                   = pages[pid].free_space - (Len(result'.key) + Len(result'.value) + 8)]_vars

\* C11's case: an entry was appended to a page that was read back from the
\* device for it.
C11_Witness ==
    /\ result.op = "set" /\ result.ret = "Ok" /\ result.key \in DOMAIN index
    /\ miss_count > 0
    /\ LET pid == index[result.key].location.page_id
       IN /\ Len(pages[pid].in_memory[1].data) >= 2
          /\ pages[pid].free_space
                = DEFAULT_PAGE_SIZE - pages[pid].in_memory[1].current_size

\* C12: within one Database next_id never decreases; a new page takes the id
\* next_id, which no page of this Database has, and next_id moves past it; a
\* set that fails or appends to an existing page allocates no id.
C12_NextIdNeverReused ==
    [][reopens' = reopens
       => /\ \A pid \in DOMAIN pages : pid < next_id
          /\ next_id' >= next_id
          /\ IF DOMAIN pages' # DOMAIN pages
             THEN /\ next_id \notin DOMAIN pages
                  /\ DOMAIN pages' = DOMAIN pages \cup {next_id}
                  /\ next_id' = next_id + 1
                  /\ index'[result'.key].location.page_id = next_id
             ELSE next_id' = next_id]_vars

\* C12's case: two pages were allocated, then an entry was appended to one of
\* them.
C12_Witness ==
    /\ next_id >= 2
    /\ result.op = "set" /\ result.ret = "Ok" /\ result.key \in DOMAIN index
    /\ Len(pages[index[result.key].location.page_id].in_memory[1].data) >= 2

RECURSIVE RecentPages(_, _, _)
RecentPages(log, c, acc) ==
    IF log = <<>> \/ Cardinality(acc) >= c THEN acc
    ELSE RecentPages(SubSeq(log, 1, Len(log) - 1), c, acc \cup {log[Len(log)]})

\* The page the step loads, as a sequence of at most one page id: the page of
\* an indexed key a get reads, the page find_suitable_page_id offers a set.
StepLoad ==
    IF result'.op = "get" THEN GetTouched(result'.key)
    ELSE IF result'.op = "set"
    THEN (LET found == PageManager_find_suitable_page_id(PM,
                           Len(result'.key) + Len(result'.value) + 8,
                           Database_set_is_hot(index, result'.key, hot_threshold, clock))
          IN IF IsSome(found) THEN <<Unwrap(found)>> ELSE <<>>)
    ELSE <<>>

\* The step counts one cache hit and no miss.
CountsHit == hit_count' = hit_count + 1 /\ miss_count' = miss_count

\* The step counts one cache miss and no hit.
CountsMiss == miss_count' = miss_count + 1 /\ hit_count' = hit_count

C15_HitMissLaw ==
    [][(nops' = nops + 1 /\ alive')
       => /\ ((result'.op = "get" /\ result'.key \in DOMAIN index) \/ FitStep)
             => (CountsHit \/ CountsMiss)
          /\ ((result'.op = "get" /\ result'.key \notin DOMAIN index)
                 \/ (result'.op = "set" /\ next_id' > next_id))
             => (hit_count' = hit_count /\ miss_count' = miss_count)]_vars

\* C16: every page id held in the page cache is a key of the pages map.
C16_CacheWithinPages == \A i \in 1..Len(page_cache) : page_cache[i] \in DOMAIN pages

\* C16's case: the cache is full, pages holds ids the cache has evicted, and a
\* page came back into the cache from the device.
C16_Witness ==
    /\ Len(page_cache) = DEFAULT_CACHE_SIZE
    /\ Cardinality(DOMAIN pages) > Len(page_cache)
    /\ miss_count > 0

\* C17: the entry index in the Location a successful set stores is the
\* zero-based position of the new entry in its page: 0 for the first entry of
\* a fresh page, 1 for the next one appended to it, and so on.
C17_IndexIsPosition ==
    (result.op = "set" /\ result.ret = "Ok")
    => index[result.key].location.page_index
          = Len(pages[index[result.key].location.page_id].in_memory[1].data) - 1

\* The frequency update_hotness leaves for the key, in thousandths: the old
\* frequency decayed over the seconds since the last access, plus 1.
UpdatedFreq(key) ==
    (index[key].freq_accessed * DecayMilli(clock - index[key].last_access)) \div 1000 + 1000

\* C18: a successful set of an indexed key whose updated frequency is >=
\* hot_threshold stores the entry on a page whose is_hot is true, and one whose
\* updated frequency is below hot_threshold on a page whose is_hot is false.
C18_PlacedByHotness ==
    [][(result'.op = "set" /\ nops' = nops + 1 /\ result'.ret = "Ok"
           /\ result'.key \in DOMAIN index)
       => pages'[index'[result'.key].location.page_id].is_hot
             = (UpdatedFreq(result'.key) >= hot_threshold * 1000)]_vars

\* C18's case: a key was set again as hot and, a second later, again as cold.
C18_Witness ==
    /\ result.op = "set" /\ result.ret = "Ok" /\ result.key \in DOMAIN prevSet
    /\ clock > 0
    /\ \E pid \in DOMAIN pages : pages[pid].is_hot
    /\ ~pages[index[result.key].location.page_id].is_hot
    /\ Len(pages[index[result.key].location.page_id].in_memory[1].data) >= 2

\* C19: the first set of a key that is not in the index is placed on a page
\* whose is_hot is false and leaves the key with freq_accessed = 1, whatever
\* the hot_threshold, 0 and 1 included.
C19_NewKeyCold ==
    [][(result'.op = "set" /\ nops' = nops + 1 /\ result'.ret = "Ok"
           /\ result'.key \notin DOMAIN index)
       => /\ ~pages'[index'[result'.key].location.page_id].is_hot
          /\ index'[result'.key].freq_accessed = 1000
          /\ index'[result'.key].last_access = clock]_vars

\* C19's case: under a threshold of 0 or 1 a key's first set went to a cold
\* page while another key's repeated set had opened a hot page.
C19_Witness ==
    /\ hot_threshold \in LowThresholds
    /\ result.op = "set" /\ result.ret = "Ok"
    /\ result.key \in DOMAIN lastSet /\ result.key \notin DOMAIN prevSet
    /\ index[result.key].freq_accessed = 1000
    /\ ~pages[index[result.key].location.page_id].is_hot
    /\ \E pid \in DOMAIN pages : pages[pid].is_hot

\* C20: when no second has passed since the key's last access, a get of an
\* indexed key raises its freq_accessed by exactly 1, and update_hotness calls
\* the key hot exactly when the raised freq_accessed is >= hot_threshold.
C20_SameSecondGet ==
    [][(result'.op = "get" /\ nops' = nops + 1 /\ result'.key \in DOMAIN index
           /\ index[result'.key].last_access = clock)
       => /\ index'[result'.key].freq_accessed = index[result'.key].freq_accessed + 1000
          /\ update_hotness(index[result'.key], hot_threshold, clock).hot
                <=> (index'[result'.key].freq_accessed >= hot_threshold * 1000)]_vars

\* C20's case: a key was read twice in the second it was set: its frequency
\* went from 1 over 2, the threshold, to 3.
C20_Witness ==
    /\ result.op = "get" /\ result.ret = "Ok"
    /\ index[result.key].freq_accessed = 3000
    /\ index[result.key].last_access = clock

\* The block of page pid in the file decodes, its checksum verified, to the
\* page p: the same id, capacity, entries and current_size.
DecodesTo(pid, p) ==
    /\ ~Page_read_from_buffer(file[pid]).panic
    /\ Page_read_from_buffer(file[pid]).page.id = p.id
    /\ Page_capacity(Page_read_from_buffer(file[pid]).page) = Page_capacity(p)
    /\ Page_read_from_buffer(file[pid]).page.data = p.data
    /\ Page_read_from_buffer(file[pid]).page.current_size = p.current_size

\* C21: decoding the block the engine wrote for a page yields the page that
\* was encoded (same id, capacity, entry sequence and current_size), and the
\* CRC32 stored in every block the engine wrote verifies when it is read.
C21_CodecRoundTrip ==
    /\ \A pid \in DOMAIN file :
          /\ ~Page_read_from_buffer(file[pid]).panic
          /\ Page_read_from_buffer(file[pid]).page.id = pid
    /\ \A pid \in DOMAIN pages :
          IsSome(pages[pid].in_memory) /\ pid \in DOMAIN file
              => DecodesTo(pid, Unwrap(pages[pid].in_memory))

\* C21's case: a page of two entries was written, its block followed by
\* bytes nothing initialised, and decodes to the page in memory.
C21_Witness ==
    \E pid \in DOMAIN pages :
        /\ pid \in DOMAIN file
        /\ IsSome(pages[pid].in_memory)
        /\ Len(Unwrap(pages[pid].in_memory).data) = 2
        /\ file[pid][DEFAULT_PAGE_SIZE] = Junk
        /\ DecodesTo(pid, Unwrap(pages[pid].in_memory))

\* The stored CRC32 of the block buf differs from the CRC32 of its payload,
\* whose entries are all inside the block.
CrcMismatch(buf) ==
    /\ ReadEntries(buf, HEADER_SIZE + SIZE_FIELD_SIZE,
                   from_le_bytes(Slice(buf, HEADER_SIZE, HEADER_SIZE + SIZE_FIELD_SIZE))).ok
    /\ Crc32(Slice(buf, HEADER_SIZE,
                   ReadEntries(buf, HEADER_SIZE + SIZE_FIELD_SIZE,
                               from_le_bytes(Slice(buf, HEADER_SIZE,
                                                   HEADER_SIZE + SIZE_FIELD_SIZE))).off))
           # PageHeader_read_from_buffer(buf).crc32

\* A get of key has to read page pid from the device.
GetReads(key, pid) ==
    /\ Get(key)
    /\ key \in DOMAIN index
    /\ index[key].location.page_id = pid
    /\ ~InSeq(page_cache, pid)
    /\ pid \in DOMAIN file

\* C22: a get of a key whose page left the cache and whose persisted bytes no
\* longer match their CRC32 returns InvalidData to the caller and does not
\* abort the process.
C22_CrcMismatchInvalidData ==
    [][\A key \in Keys : \A pid \in DOMAIN file :
          GetReads(key, pid) /\ CrcMismatch(file[pid])
              => result'.ret = "InvalidData" /\ alive']_vars

\* C23: decoding a block whose first 7 bytes are not the magic "blitzkv"
\* fails and reports corruption; it never yields a page.
C23_BadMagicRejected ==
    \A pid \in DOMAIN file :
        Slice(file[pid], 0, MAGIC_SIZE) # MAGIC_HEADER
            => Page_read_from_buffer(file[pid]).panic

\* A get of key has to read page pid, which lies beyond the end of the file.
GetReadsBeyondEnd(key, pid) ==
    /\ Get(key)
    /\ key \in DOMAIN index
    /\ index[key].location.page_id = pid
    /\ ~InSeq(page_cache, pid)
    /\ pid \notin DOMAIN file
    /\ ~PM.io_error

\* C24: read_page of a page id beyond the end of the backing file (the read
\* returns 0 bytes) returns a fresh empty page carrying that id, not an
\* error and not an abort: the get that needed the page goes on with it.
C24_BeyondEndFreshPage ==
    [][\A key \in Keys : \A pid \in 0..next_id :
          GetReadsBeyondEnd(key, pid)
              => /\ alive'
                 /\ result'.ret # "Storage"
                 /\ pages'[pid].in_memory = Some(Page_new(pid, DEFAULT_PAGE_SIZE))]_vars

\* C25: while the device fails every seek, read and write, a get that has
\* to read its page and a set of an entry that fits a page are returned to
\* the caller as DatabaseError::Storage, and no operation aborts the process.
C25_IoFailureIsStorageError ==
    [][fault = "io" =>
          /\ \A key \in Keys : \A pid \in DOMAIN file :
                GetReads(key, pid) => result'.ret = "Storage" /\ alive'
          /\ \A key \in Keys : \A value \in Values :
                Set(key, value) /\ ~TooLarge(key, value)
                    => result'.ret = "Storage" /\ alive']_vars

\* The bytes the entries of data take: the sum of 8 + |key| + |value|.
RECURSIVE EntriesSize(_, _)
EntriesSize(data, i) ==
    IF i > Len(data) THEN 0 ELSE Entry_total_size(data[i]) + EntriesSize(data, i + 1)

\* C26 as the spec states it: after any sequence of push_entry and
\* remove_entry, current_size = 19 + 4 + the sum over the entries of
\* 8 + |key| + |value|.
C26_SizeAccounting19 ==
    unit_page.current_size = 19 + 4 + EntriesSize(unit_page.data, 1)

\* C26, amended: after any sequence of push_entry and remove_entry,
\* current_size = HEADER_SIZE (23) + 4 + the sum over the entries of
\* 8 + |key| + |value|.
C26_SizeAccounting ==
    unit_page.current_size = HEADER_SIZE + SIZE_FIELD_SIZE + EntriesSize(unit_page.data, 1)

\* C26's case: an entry was removed from a page that held two, another one
\* stays.
C26_Witness ==
    /\ result.op = "remove_entry" /\ result.ret = "true"
    /\ Len(unit_page.data) = 1
    /\ unit_page.data[1].key # result.key
    /\ unit_page.current_size = HEADER_SIZE + SIZE_FIELD_SIZE + Entry_total_size(unit_page.data[1])

\* C27: current_size <= capacity at all times; push_entry succeeds iff
\* current_size + 8 + |key| + |value| <= capacity, and a push_entry that
\* would exceed the capacity returns no index and leaves the entries and
\* current_size of the page unchanged.
C27_PushWithinCapacity ==
    /\ [](unit_page.current_size <= Page_capacity(unit_page))
    /\ [][\A key \in Keys : \A value \in Values :
             PushEntry(key, value)
                 => /\ (result'.ret = "Some"
                           <=> unit_page.current_size + 8 + Len(key) + Len(value)
                                   <= Page_capacity(unit_page))
                    /\ (result'.ret = "None"
                           => /\ result'.out = None
                              /\ unit_page'.data = unit_page.data
                              /\ unit_page'.current_size = unit_page.current_size)]_vars

\* C27's case: a push filled the page to its last byte, and the page holds
\* two entries.
C27_Witness ==
    /\ result.op = "push_entry" /\ result.ret = "Some"
    /\ Len(unit_page.data) = 2
    /\ unit_page.current_size = Page_capacity(unit_page)

\* Some page of the class is_hot has room for an entry of required bytes,
\* counted from the page itself.
ClassHasRoom(is_hot, required) ==
    \E p \in DOMAIN pages :
        /\ pages[p].is_hot = is_hot
        /\ IsSome(pages[p].in_memory)
        /\ Page_free_space(Unwrap(pages[p].in_memory)) >= required

\* C28: a set creates a new page only when no page of the target class has
\* enough free space: whenever some page of the class has actual free space
\* >= |key| + |value| + 8, the set stores the entry on an existing page and
\* next_id does not change.
C28_NewPageOnlyWhenNoRoom ==
    [][\A key \in Keys : \A value \in Values :
          /\ Set(key, value)
          /\ ClassHasRoom(Database_set_is_hot(index, key, hot_threshold, clock),
                          Len(key) + Len(value) + 8)
          => /\ result'.ret = "Ok"
             /\ next_id' = next_id
             /\ index'[key].location.page_id \in DOMAIN pages]_vars

\* The step evicts page pid from the cache of the running Database.
Evicts(pid) ==
    /\ reopens' = reopens
    /\ InSeq(page_cache, pid)
    /\ ~InSeq(page_cache', pid)

\* The PageStatus of page pid and its listing survive the step.
KeepsBookkeeping(pid) ==
    /\ pid \in DOMAIN pages'
    /\ pages'[pid].free_space = pages[pid].free_space
    /\ pages'[pid].is_hot = pages[pid].is_hot
    /\ pid \in Listed(hot_free_spaces) => pid \in Listed(hot_free_spaces')
    /\ pid \in Listed(cold_free_spaces) => pid \in Listed(cold_free_spaces')

\* C29: when a page is evicted from the full cache, its PageStatus stays in
\* pages with the same free_space and is_hot and the page stays listed in its
\* free-space index, while its in-memory handle is dropped: PageStatus.in_memory
\* no longer holds the page.
C29_EvictionDropsHandle ==
    [][\A pid \in DOMAIN pages :
          Evicts(pid) => KeepsBookkeeping(pid) /\ pages'[pid].in_memory = None]_vars

\* The Location PageManager::set returns for set(key, value) in this state.
ReturnedLocation(key, value) ==
    PageManager_set(PM, key, value,
                    Database_set_is_hot(index, key, hot_threshold, clock), clock).loc

\* C30: every successful set(key, value), of a new key and of an indexed key
\* alike, leaves index[key] with the location the page manager returned,
\* size = |key| + |value| and freq_accessed = 1: the frequency earlier
\* accesses accumulated is discarded.
C30_SetResetsMetadata ==
    [][\A key \in Keys : \A value \in Values :
          Set(key, value) /\ result'.ret = "Ok"
              => /\ key \in DOMAIN index'
                 /\ Some(index'[key].location) = ReturnedLocation(key, value)
                 /\ index'[key].location.page_id \in DOMAIN pages'
                 /\ index'[key].size = Len(key) + Len(value)
                 /\ index'[key].freq_accessed = 1000]_vars

\* C30's case: a key that had been read up to the threshold was set again:
\* the set was placed as hot, and the key's frequency is back at 1.
C30_Witness ==
    /\ result.op = "set" /\ result.ret = "Ok"
    /\ result.key \in DOMAIN prevSet
    /\ hit_count >= 1
    /\ pages[index[result.key].location.page_id].is_hot
    /\ index[result.key].freq_accessed = 1000

\* The sequence s starts with the sequence t.
StartsWith(s, t) == Len(t) <= Len(s) /\ SubSeq(s, 1, Len(t)) = t

\* Some page of the manager holds the entry (key, value).
HoldsEntry(key, value) ==
    \E pid \in DOMAIN pages :
        /\ IsSome(pages[pid].in_memory)
        /\ \E i \in 1..Len(Unwrap(pages[pid].in_memory).data) :
              Unwrap(pages[pid].in_memory).data[i] = [key |-> key, value |-> value]

\* Page pid keeps every entry it had, in place, and gains no free space,
\* neither in the page itself nor in its PageStatus.
KeepsEntries(pid) ==
    /\ pid \in DOMAIN pages'
    /\ StartsWith(Unwrap(pages'[pid].in_memory).data, Unwrap(pages[pid].in_memory).data)
    /\ Page_free_space(Unwrap(pages'[pid].in_memory))
           <= Page_free_space(Unwrap(pages[pid].in_memory))
    /\ pages'[pid].free_space <= pages[pid].free_space

\* C31: updating a key does not reclaim its old version: after set(k, v1)
\* and set(k, v2) the entry (k, v1) is still in a page, every page keeps the
\* entries it had, and no page's free space increases through any set or get.
C31_NoReclaim ==
    /\ [](\A key \in DOMAIN prevSet : HoldsEntry(key, prevSet[key]))
    /\ [][reopens' = reopens => \A pid \in DOMAIN pages : KeepsEntries(pid)]_vars

\* C31's case: a key was set twice with different values into the same
\* page, which holds both versions.
C31_Witness ==
    /\ result.op = "set" /\ result.ret = "Ok"
    /\ result.key \in DOMAIN prevSet
    /\ prevSet[result.key] # lastSet[result.key]
    /\ Unwrap(pages[index[result.key].location.page_id].in_memory).data
           = << [key |-> result.key, value |-> prevSet[result.key]],
                [key |-> result.key, value |-> lastSet[result.key]] >>

\* The 1-based positions of the entries of data that hold the key.
PositionsOf(data, key) == {j \in 1..Len(data) : data[j].key = key}

\* The first of a non-empty set of positions.
FirstOf(ps) == CHOOSE j \in ps : \A l \in ps : j <= l

\* C32: Page.get(entry_index, k) returns the value at entry_index when the
\* key stored there equals k; otherwise (index out of range or another key
\* there) the value of the first entry in page order whose key equals k, or
\* nothing when no entry has key k.
C32_GetByIndexThenKey ==
    [][\A entry_index \in 0..MaxEntryIndex : \A key \in Keys :
          GetEntry(entry_index, key)
              => result'.out =
                     IF entry_index < Len(unit_page.data)
                           /\ unit_page.data[entry_index + 1].key = key
                     THEN Some(unit_page.data[entry_index + 1].value)
                     ELSE IF PositionsOf(unit_page.data, key) = {} THEN None
                     ELSE Some(unit_page.data[FirstOf(PositionsOf(unit_page.data,
                                                                   key))].value)]_vars

\* C32's case: the page holds two versions of a key and get was asked for
\* the second one by its index: it answered the second value, not the first.
C32_Witness ==
    /\ result.op = "page_get"
    /\ result.entry_index = 1
    /\ Len(unit_page.data) = 2
    /\ unit_page.data[1].key = result.key
    /\ unit_page.data[2].key = result.key
    /\ unit_page.data[1].value # unit_page.data[2].value
    /\ result.out = Some(unit_page.data[2].value)

\* The entries of data without the one at position j, the later ones one
\* index lower.
ShiftedDown(data, j) ==
    [i \in 1..(Len(data) - 1) |-> IF i < j THEN data[i] ELSE data[i + 1]]

\* What the claim says remove_entry(key) leaves of a page that holds the key:
\* only the first entry with the key is gone and current_size is lower by its
\* 8 + |key| + |value|.
RemovedFirst(before, after, key) ==
    /\ after.data = ShiftedDown(before.data, FirstOf(PositionsOf(before.data, key)))
    /\ after.current_size
           = before.current_size
                 - (8 + Len(key)
                      + Len(before.data[FirstOf(PositionsOf(before.data, key))].value))

ItemClass(key, value) == ClassFor(file_slab, SlabItemSize(key, value), 1)

\* C34: in FileSlab, a create issued after delete(s) for an item of the same
\* size class returns the freed slab s (same file and same index) and hands
\* out no fresh slot, and a read of a slab that follows a write of it returns
\* the key and the value written.
C34_SlabReuseAndRoundTrip ==
    [][/\ \A key \in Keys : \A value \in Values :
             /\ result.op = "slab_delete" /\ result.ret = "Ok"
             /\ SlabCreate(key, value)
             /\ ItemClass(key, value) # 0
             /\ file_slab.slabs[ItemClass(key, value)].slab_size = Unwrap(result.slab).size
             => /\ result'.out = result.slab
                /\ file_slab'.slabs[ItemClass(key, value)].cur_slab
                       = file_slab.slabs[ItemClass(key, value)].cur_slab
                /\ file_slab'.next_file_id = file_slab.next_file_id
       /\ \A slab \in live_slabs :
             /\ result.op = "slab_write" /\ result.ret = "Ok"
             /\ result.slab = Some(slab)
             /\ SlabRead(slab)
             => result'.out = Some(<<result.key, result.value>>)]_vars

\* C34's case: two slabs of a class were freed and the create that followed
\* the second delete got that slab back, the other one still being free.
C34_Witness ==
    /\ result.op = "slab_create" /\ result.ret = "Ok"
    /\ \E c \in 1..Len(file_slab.slabs) :
          /\ file_slab.slabs[c].slab_size = Unwrap(result.out).size
          /\ Len(file_slab.slabs[c].free_slab) = 1
          /\ file_slab.slabs[c].free_slab[1].index < Unwrap(result.out).index
          /\ file_slab.slabs[c].cur_slab = 1

\* The step is a create that hands out a slab that is live already.
CreateReturnsLive ==
    /\ result'.op = "slab_create" /\ result'.ret = "Ok"
    /\ Unwrap(result'.out) \in live_slabs

\* C40: in FileSlab, with no slab deleted twice, every slab create returned
\* has index < slab_per_file (a file never holds more than slab_per_file
\* slabs), and no two slabs that are live at the same time share the same
\* (size, file, index).
C40_SlabIndexBounded ==
    /\ [](\A s \in live_slabs : s.index < SLAB_PER_FILE)
    /\ [][~CreateReturnsLive]_vars

\* The entries the device holds for page pid, <<"unreadable">> if its block
\* is missing or does not decode.
PersistedEntries(pid) ==
    IF pid \notin DOMAIN file \/ Page_read_from_buffer(file[pid]).panic
    THEN <<"unreadable">>
    ELSE Page_read_from_buffer(file[pid]).page.data

\* C35: write-through coherence: after every completed set or get, for every
\* page known to the manager the content persisted on the device equals the
\* content in memory (the same entry sequence), so reloading an evicted page
\* yields exactly the entries it had when it was evicted.
C35_WriteThrough ==
    alive => \A pid \in DOMAIN pages :
                 /\ IsSome(pages[pid].in_memory)
                 /\ PersistedEntries(pid) = Unwrap(pages[pid].in_memory).data

\* C35's case: a page that took a second entry through the fit path is out
\* of the cache, and its block on the device holds both entries.
C35_Witness ==
    \E pid \in DOMAIN pages :
        /\ ~InSeq(page_cache, pid)
        /\ Len(PersistedEntries(pid)) = 2
        /\ PersistedEntries(pid) = Unwrap(pages[pid].in_memory).data
        /\ result.op \in {"set", "get"}

\* The step is a set of an indexed key that fails with StorageFull.
FailedSetOfIndexed(key) ==
    /\ \E value \in Values : Set(key, value)
    /\ result'.ret = "StorageFull"
    /\ key \in DOMAIN index

\* The step is the get of key that follows a failed set of it.
GetAfterFailedSet(key) ==
    /\ result.op = "set" /\ result.ret = "StorageFull" /\ result.key = key
    /\ key \in DOMAIN lastSet
    /\ Get(key)

\* C36: a set that fails with StorageFull on a key that is already indexed
\* leaves the key's location unchanged and its previous value readable: the
\* next get(k) returns the value of the last successful set(k, _).
C36_FailedSetKeepsValue ==
    [][\A key \in Keys :
          /\ FailedSetOfIndexed(key)
                 => key \in DOMAIN index' /\ index'[key].location = index[key].location
          /\ GetAfterFailedSet(key)
                 => result'.ret = "Ok" /\ result'.out = Some(lastSet[key])]_vars

\* The placement fields of a page: its entries, free space and class.
Placement(status) ==
    [data |-> IF IsSome(status.in_memory) THEN Unwrap(status.in_memory).data ELSE <<>>,
     free_space |-> status.free_space,
     is_hot |-> status.is_hot]

\* The index, the pages, the free-space indexes, next_id and the device write
\* counter are the same before and after the step.
PlacementUnchanged ==
    /\ DOMAIN index' = DOMAIN index
    /\ \A k \in DOMAIN index : index'[k].location = index[k].location
    /\ DOMAIN pages' = DOMAIN pages
    /\ \A pid \in DOMAIN pages : Placement(pages'[pid]) = Placement(pages[pid])
    /\ hot_free_spaces' = hot_free_spaces
    /\ cold_free_spaces' = cold_free_spaces
    /\ next_id' = next_id
    /\ writes' = writes

\* C37: Database.get changes no placement state: on a cache hit and on a
\* cache miss it leaves the key set and every location of the index, every
\* page's entry sequence, free_space and is_hot, both free-space indexes,
\* next_id and the device write counter unchanged.
C37_GetChangesNoPlacement ==
    [][\A key \in Keys : Get(key) => PlacementUnchanged]_vars

\* The page ids the two free-space indexes list, with repetitions.
ListedIds(map) ==
    LET Flat[ks \in SUBSET DOMAIN map] ==
            IF ks = {} THEN <<>>
            ELSE LET k == CHOOSE x \in ks : TRUE IN map[k] \o Flat[ks \ {k}]
    IN Flat[DOMAIN map]

\* How often page_id occurs in the sequence ids.
Occurrences(ids, page_id) ==
    Cardinality({i \in DOMAIN ids : ids[i] = page_id})

\* C38: in every reachable state each page id occurs at most once in the
\* free-space indexes taken together, never twice under one key and never
\* under two different keys, also after the page was evicted from the cache
\* and loaded again by a get or a set.
C38_ListedAtMostOnce ==
    \A pid \in DOMAIN file :
        Occurrences(ListedIds(hot_free_spaces) \o ListedIds(cold_free_spaces), pid) <= 1

\* The step keeps the class of every page the manager knows.
ClassesKept ==
    \A pid \in DOMAIN pages :
        pid \in DOMAIN pages' /\ pages'[pid].is_hot = pages[pid].is_hot

\* The step is a successful set(key, value) whose entry went to a page of the
\* class the write asked for: a page that existed had that class, a page the
\* set created got it.
PlacedInOwnClass(key, value) ==
    /\ index'[key].location.page_id \in DOMAIN pages'
    /\ pages'[index'[key].location.page_id].is_hot
           = Database_set_is_hot(index, key, hot_threshold, clock)
    /\ index'[key].location.page_id \in DOMAIN pages
           => pages[index'[key].location.page_id].is_hot
                  = Database_set_is_hot(index, key, hot_threshold, clock)

\* C39: a page's class is fixed when it is created: over any sequence of
\* Database.set/get (the steps that count an operation in nops),
\* pages[pid].is_hot never changes after the page's first insertion, so a page
\* created by a cold write never receives a hot entry and a page created by a
\* hot write never receives a cold one.
C39_ClassFixedAtCreation ==
    [][/\ nops' = nops + 1 => ClassesKept
       /\ (nops' = nops + 1 /\ result'.op = "set" /\ result'.ret = "Ok")
              => PlacedInOwnClass(result'.key, result'.value)]_vars

\* C39's case: a cold page and a hot page each received a second entry.
C39_Witness ==
    /\ result.op = "set" /\ result.ret = "Ok"
    /\ \E c \in DOMAIN pages : \E h \in DOMAIN pages :
          /\ ~pages[c].is_hot /\ pages[h].is_hot
          /\ Len(Unwrap(pages[c].in_memory).data) >= 2
          /\ Len(Unwrap(pages[h].in_memory).data) >= 2

====
